---- MODULE Spec2Model ----
(***************************************************************************)
(* Model of app/recording_processor.py: AudioRecordingProcessor, a Pipecat  *)
(* frame processor (the "StreamTap") that records audio frames through an   *)
(* AudioRecorder (the "Recorder") and passes every frame on.                *)
(*                                                                         *)
(* A frame is a record [type, audio]: its Pipecat class and, for an audio   *)
(* frame, the length in bytes of frame.audio (the payload).  The recorder   *)
(* methods called by the processors are kept, in call order, in calls.      *)
(***************************************************************************)
EXTENDS Integers, Sequences, FiniteSets

\* ---------------------------------------------------------------- bounds
\* Spec: operations on the processor after its construction (frames
\* delivered plus cleanup() calls).
MaxUnits == 4
\* SpecPair: audio frames delivered to one processor between its StartFrame
\* and its EndFrame, plus its cleanup() calls.
MaxChunks == 2
\* SpecSamples: frames delivered to the processor, and the longest payload
\* in bytes.
MaxSampleFrames == 2
MaxLen == 5

\* ---------------------------------------------------------------- values
Taps == {"T1", "T2"}

None == "None"
\* A recorder built by whoever assembles the pipeline and passed in as
\* shared_recorder.
ExternalRecorder == "R0"

\* The object AudioRecorder() returns at line 43: a fresh one per processor.
NewRecorder(t) == "R_" \o t

Recorders == {ExternalRecorder} \cup {NewRecorder(t) : t \in Taps}

StartFrame == [type |-> "StartFrame", audio |-> 0]
EndFrame == [type |-> "EndFrame", audio |-> 0]
\* A frame of any other class (neither start, end nor audio).
OtherFrame == [type |-> "Frame", audio |-> 0]

AudioTypes == {"AudioRawFrame", "InputAudioRawFrame", "OutputAudioRawFrame"}

AudioFrame(type, len) == [type |-> type, audio |-> len]

\* Payload lengths of the audio frames delivered under Spec.
AudioLens == {200, 320}

Frames ==
    {StartFrame, EndFrame, OtherFrame}
        \cup {AudioFrame(ty, n) : ty \in AudioTypes, n \in AudioLens}

\* How a recorder call ends: normally, or with a failure inside the recorder.
Outcomes == {"ok", "failed"}

\* ---------------------------------------------------------------- state
VARIABLES
    constructed,       \* t -> __init__ has run for processor t
    enable_recording,  \* t -> self.enable_recording
    record_input,      \* t -> self.record_input
    shared_recorder,   \* t -> the shared_recorder argument of __init__
    recorder,          \* t -> self.recorder (None or a recorder)
    started,           \* t -> FrameProcessor's __started, set by the StartFrame hook
    received,          \* t -> frames handed to process_frame, in order
    forwarded,         \* t -> frames passed to push_frame, in order
    cleanups,          \* t -> number of cleanup() calls
    calls,             \* recorder method calls made by the processors, in order
    effects            \* what the latest operation did, in statement order

vars ==
    <<constructed, enable_recording, record_input, shared_recorder, recorder,
      started, received, forwarded, cleanups, calls, effects>>

Call(r, m, t, n, o) ==
    [recorder |-> r, method |-> m, by |-> t, audio |-> n, outcome |-> o]

\* One thing an operation does: op is "hook" (the FrameProcessor lifecycle
\* hook), "num_samples" (the sample count is computed, n), "call" (the
\* recorder method name is called with n bytes), "release"
\* (self.recorder = None) or "push" (push_frame).
Eff(op, name, n) == [op |-> op, name |-> name, n |-> n]

Init ==
    /\ constructed = [t \in Taps |-> FALSE]
    /\ enable_recording = [t \in Taps |-> TRUE]
    /\ record_input = [t \in Taps |-> TRUE]
    /\ shared_recorder = [t \in Taps |-> None]
    /\ recorder = [t \in Taps |-> None]
    /\ started = [t \in Taps |-> FALSE]
    /\ received = [t \in Taps |-> <<>>]
    /\ forwarded = [t \in Taps |-> <<>>]
    /\ cleanups = [t \in Taps |-> 0]
    /\ calls = <<>>
    /\ effects = <<>>

\* ---------------------------------------------------------------- helpers
\* isinstance(frame, cls): InputAudioRawFrame and OutputAudioRawFrame are
\* subclasses of AudioRawFrame.
IsInstance(frame, cls) ==
    \/ frame.type = cls
    \/ cls = "AudioRawFrame" /\ frame.type \in AudioTypes

\* As CreatesRecorder, without the test of self.recorder.
CreatesRecorder_unconditional(enable, shared) == enable

\* Line 42: the processor builds and starts a recorder of its own.
CreatesRecorder(enable, shared) == enable /\ shared = None

\* As RecordMethod, with every audio frame taken for a legacy AudioRawFrame.
RecordMethod_untyped(rin, frame) ==
    IF rin THEN "record_input_audio" ELSE "record_output_audio"

\* As RecordMethod, with the legacy branch always recording as input.
RecordMethod_legacy_input(rin, frame) ==
    IF frame.type = "OutputAudioRawFrame"
    THEN IF ~rin THEN "record_output_audio" ELSE "none"
    ELSE IF frame.type = "InputAudioRawFrame"
    THEN IF rin THEN "record_input_audio" ELSE "none"
    ELSE "record_input_audio"

\* Lines 69-90: the recorder method an audio frame is recorded with by a
\* processor that has a recorder, "none" when the frame is skipped.
RecordMethod(rin, frame) ==
    IF IsInstance(frame, "OutputAudioRawFrame")
    THEN IF ~rin THEN "record_output_audio" ELSE "none"
    ELSE IF IsInstance(frame, "InputAudioRawFrame")
    THEN IF rin THEN "record_input_audio" ELSE "none"
    ELSE IF rin THEN "record_input_audio" ELSE "record_output_audio"

\* As StopsRecording, without the test of self.record_input.
StopsRecording_either(rec, rin) == rec # None

\* Lines 91 and 104: `self.recorder and self.record_input`.
StopsRecording(rec, rin) == rec # None /\ rin

\* As Released, with the reference kept.
Released_kept(rec) == rec

\* Lines 95 and 107: self.recorder = None.
Released(rec) == None

\* As push_frame, with the EndFrame branch returning before line 100.
push_frame_not_end(fwd, frame) ==
    IF frame.type = "EndFrame" THEN fwd ELSE Append(fwd, frame)

\* Lines 54 and 100: push_frame hands the frame, as it is, to the next
\* processor.
push_frame(fwd, frame) == Append(fwd, frame)

\* As Propagates, with the recorder letting its failures out as exceptions.
Propagates_failures(outcome) == outcome = "failed"

\* A failure inside a recorder method is kept inside the recorder: it never
\* reaches the caller as an exception.
Propagates(outcome) == FALSE

\* As MethodFor, without the EndFrame branch.
MethodFor_no_stop(rec, rin, frame) ==
    IF frame.type \in {"AudioRawFrame", "InputAudioRawFrame", "OutputAudioRawFrame"}
           /\ rec # "None"
    THEN IF frame.type = "OutputAudioRawFrame"
         THEN IF ~rin THEN "record_output_audio" ELSE "none"
         ELSE IF frame.type = "InputAudioRawFrame"
         THEN IF rin THEN "record_input_audio" ELSE "none"
         ELSE IF rin THEN "record_input_audio" ELSE "record_output_audio"
    ELSE "none"

\* As MethodFor, without the isinstance(frame, EndFrame) test.
MethodFor_stop_on_any(rec, rin, frame) ==
    IF frame.type \in {"AudioRawFrame", "InputAudioRawFrame", "OutputAudioRawFrame"}
    THEN IF rec = "None" THEN "none"
         ELSE IF frame.type = "OutputAudioRawFrame"
         THEN IF ~rin THEN "record_output_audio" ELSE "none"
         ELSE IF frame.type = "InputAudioRawFrame"
         THEN IF rin THEN "record_input_audio" ELSE "none"
         ELSE IF rin THEN "record_input_audio" ELSE "record_output_audio"
    ELSE IF rec # "None" /\ rin THEN "stop_recording" ELSE "none"

\* The recorder method process_frame calls for a frame that is not a
\* StartFrame ("none": no call).
MethodFor(rec, rin, frame) ==
    IF IsInstance(frame, "AudioRawFrame")
    THEN IF rec # None THEN RecordMethod(rin, frame) ELSE "none"
    ELSE IF IsInstance(frame, "EndFrame") /\ StopsRecording(rec, rin)
    THEN "stop_recording"
    ELSE "none"

\* As num_samples, rounding to the nearest sample.
num_samples_rounded(len) == (len + 1) \div 2

\* Line 63: len(audio_bytes) // 2.
num_samples(len) == len \div 2

\* As StartCalls, with the new recorder left unstarted.
StartCalls_none(t) == <<>>

\* Line 44: the new recorder is started.
StartCalls(t) == <<Call(NewRecorder(t), "start_recording", t, 0, "ok")>>

\* As HandlerEffects, without the return at line 55: the StartFrame goes on
\* to line 100.
HandlerEffects_no_return(rec, rin, frame, outcome) ==
    IF frame.type = "StartFrame"
    THEN <<Eff("hook", "", 0), Eff("push", "", 0), Eff("push", "", 0)>>
    ELSE IF frame.type = "EndFrame" /\ rec # "None" /\ rin
    THEN <<Eff("call", "stop_recording", 0), Eff("release", "", 0),
           Eff("push", "", 0)>>
    ELSE IF frame.type \in {"EndFrame", "Frame"} \/ rec = "None"
    THEN <<Eff("push", "", 0)>>
    ELSE LET m == IF frame.type = "OutputAudioRawFrame"
                  THEN IF ~rin THEN "record_output_audio" ELSE "none"
                  ELSE IF frame.type = "InputAudioRawFrame"
                  THEN IF rin THEN "record_input_audio" ELSE "none"
                  ELSE IF rin THEN "record_input_audio"
                  ELSE "record_output_audio"
         IN  <<Eff("num_samples", "", frame.audio \div 2)>>
                 \o (IF m = "none" THEN <<>>
                     ELSE <<Eff("call", m, frame.audio)>>)
                 \o <<Eff("push", "", 0)>>

\* As HandlerEffects, with the frame passed on before it is handled.
HandlerEffects_push_first(rec, rin, frame, outcome) ==
    IF frame.type = "StartFrame"
    THEN <<Eff("hook", "", 0), Eff("push", "", 0)>>
    ELSE IF frame.type = "EndFrame" /\ rec # "None" /\ rin
    THEN <<Eff("push", "", 0), Eff("call", "stop_recording", 0),
           Eff("release", "", 0)>>
    ELSE IF frame.type \in {"EndFrame", "Frame"} \/ rec = "None"
    THEN <<Eff("push", "", 0)>>
    ELSE LET m == IF frame.type = "OutputAudioRawFrame"
                  THEN IF ~rin THEN "record_output_audio" ELSE "none"
                  ELSE IF frame.type = "InputAudioRawFrame"
                  THEN IF rin THEN "record_input_audio" ELSE "none"
                  ELSE IF rin THEN "record_input_audio"
                  ELSE "record_output_audio"
         IN  <<Eff("push", "", 0), Eff("num_samples", "", frame.audio \div 2)>>
                 \o (IF m = "none" THEN <<>>
                     ELSE <<Eff("call", m, frame.audio)>>)

\* Lines 51-100: what process_frame does with a frame, in statement order.
\* An exception out of a recorder call ends the method there.
HandlerEffects(rec, rin, frame, outcome) ==
    IF IsInstance(frame, "StartFrame")
    THEN <<Eff("hook", "", 0), Eff("push", "", 0)>>
    ELSE LET m == MethodFor(rec, rin, frame)
             sampled ==
                 IF IsInstance(frame, "AudioRawFrame") /\ rec # None
                 THEN <<Eff("num_samples", "", num_samples(frame.audio))>>
                 ELSE <<>>
         IN  IF m = "none" THEN sampled \o <<Eff("push", "", 0)>>
             ELSE sampled \o <<Eff("call", m, frame.audio)>>
                      \o (IF Propagates(outcome) THEN <<>>
                          ELSE (IF m = "stop_recording"
                                THEN <<Eff("release", "", 0)>> ELSE <<>>)
                                   \o <<Eff("push", "", 0)>>)

\* The effects of kind op among eff, in order.
Of(eff, op) == SelectSeq(eff, LAMBDA e : e.op = op)

\* push_frame applied k times.
RECURSIVE Pushed(_, _, _)
Pushed(fwd, frame, k) ==
    IF k = 0 THEN fwd ELSE Pushed(push_frame(fwd, frame), frame, k - 1)

\* ---------------------------------------------------------------- actions
\* __init__(enable_recording, record_input, shared_recorder)
AudioRecordingProcessor(t, enable, rin, shared) ==
    /\ ~constructed[t]
    /\ constructed' = [constructed EXCEPT ![t] = TRUE]
    /\ enable_recording' = [enable_recording EXCEPT ![t] = enable]
    /\ record_input' = [record_input EXCEPT ![t] = rin]
    /\ shared_recorder' = [shared_recorder EXCEPT ![t] = shared]
    /\ IF CreatesRecorder(enable, shared)
       THEN /\ recorder' = [recorder EXCEPT ![t] = NewRecorder(t)]
            /\ calls' = calls \o StartCalls(t)
            /\ effects' = <<Eff("call", "start_recording", 0)>>
       ELSE /\ recorder' = [recorder EXCEPT ![t] = shared]
            /\ effects' = <<>>
            /\ UNCHANGED calls
    /\ UNCHANGED <<started, received, forwarded, cleanups>>

\* process_frame(frame, direction); outcome is how the recorder call it
\* makes, if any, ends.
process_frame(t, frame, outcome) ==
    LET eff == HandlerEffects(recorder[t], record_input[t], frame, outcome)
        made == Of(eff, "call")
    IN  /\ constructed[t]
        /\ (made = <<>> => outcome = "ok")
        /\ received' = [received EXCEPT ![t] = Append(@, frame)]
        /\ effects' = eff
        /\ started' =
               IF Of(eff, "hook") # <<>>
               THEN [started EXCEPT ![t] = TRUE] ELSE started
        /\ calls' =
               calls \o [i \in DOMAIN made |->
                            Call(recorder[t], made[i].name, t, made[i].n,
                                 outcome)]
        /\ recorder' =
               IF Of(eff, "release") # <<>>
               THEN [recorder EXCEPT ![t] = Released(@)] ELSE recorder
        /\ forwarded' =
               [forwarded EXCEPT
                   ![t] = Pushed(@, frame, Len(Of(eff, "push")))]
        /\ UNCHANGED <<constructed, enable_recording, record_input,
                       shared_recorder, cleanups>>

\* cleanup()
cleanup(t, outcome) ==
    /\ constructed[t]
    /\ cleanups' = [cleanups EXCEPT ![t] = @ + 1]
    /\ IF StopsRecording(recorder[t], record_input[t])
       THEN /\ calls' = Append(calls,
                   Call(recorder[t], "stop_recording", t, 0, outcome))
            /\ recorder' =
                   IF Propagates(outcome) THEN recorder
                   ELSE [recorder EXCEPT ![t] = Released(@)]
            /\ effects' =
                   <<Eff("call", "stop_recording", 0)>>
                       \o (IF Propagates(outcome) THEN <<>>
                           ELSE <<Eff("release", "", 0)>>)
       ELSE /\ outcome = "ok"
            /\ effects' = <<>>
            /\ UNCHANGED <<calls, recorder>>
    /\ UNCHANGED <<constructed, enable_recording, record_input,
                   shared_recorder, started, received, forwarded>>

\* ---------------------------------------------------------------- Spec
\* One processor, every configuration, any frames in any order.
Alone == {"T1"}

Operations(t) == Len(received[t]) + cleanups[t]

Construct ==
    \E t \in Alone, enable \in BOOLEAN, rin \in BOOLEAN,
       shared \in {None, ExternalRecorder} :
        AudioRecordingProcessor(t, enable, rin, shared)

Deliver ==
    \E t \in Alone, frame \in Frames, outcome \in Outcomes :
        /\ Operations(t) < MaxUnits
        /\ process_frame(t, frame, outcome)

Destroy ==
    \E t \in Alone, outcome \in Outcomes :
        /\ Operations(t) < MaxUnits
        /\ cleanup(t, outcome)

Next == Construct \/ Deliver \/ Destroy

Spec == Init /\ [][Next]_vars

\* ---------------------------------------------------------------- SpecPair
\* Two processors with any wiring, each fed one session (a StartFrame,
\* typed audio frames, an EndFrame) and cleaned up at any time.
SessionChunks ==
    {AudioFrame("InputAudioRawFrame", 320), AudioFrame("OutputAudioRawFrame", 320)}

Count(seq, S) == Cardinality({i \in DOMAIN seq : seq[i] \in S})

\* What a processor has been given besides its StartFrame and EndFrame.
Extras(t) == Count(received[t], SessionChunks) + cleanups[t]

SessionNext(seq) ==
    IF seq = <<>> THEN {StartFrame}
    ELSE IF Count(seq, {EndFrame}) > 0 THEN {}
    ELSE {EndFrame} \cup SessionChunks

\* The recorders a new processor can be given: none, the external one, or
\* the one another processor holds.
Injectable == {None, ExternalRecorder} \cup {recorder[u] : u \in Taps}

ConstructPair ==
    \E t \in Taps, enable \in BOOLEAN, rin \in BOOLEAN, shared \in Injectable :
        AudioRecordingProcessor(t, enable, rin, shared)

DeliverSession ==
    \E t \in Taps : \E frame \in SessionNext(received[t]) :
        /\ frame \in SessionChunks => Extras(t) < MaxChunks
        /\ process_frame(t, frame, "ok")

DestroyPair ==
    \E t \in Taps :
        /\ Extras(t) < MaxChunks
        /\ cleanup(t, "ok")

NextPair == ConstructPair \/ DeliverSession \/ DestroyPair

SpecPair == Init /\ [][NextPair]_vars

\* ---------------------------------------------------------------- SpecSamples
\* One processor, every configuration, audio frames of every length from 0
\* to MaxLen bytes.
SampleFrames == {AudioFrame(ty, n) : ty \in AudioTypes, n \in 0..MaxLen}

DeliverSamples ==
    \E t \in Alone, frame \in SampleFrames :
        /\ Len(received[t]) < MaxSampleFrames
        /\ process_frame(t, frame, "ok")

NextSamples == Construct \/ DeliverSamples

SpecSamples == Init /\ [][NextSamples]_vars

\* ---------------------------------------------------------------- properties
Last(seq) == seq[Len(seq)]

\* The calls of method m made by processor t, and those made on recorder r.
CallsBy(t, m) ==
    Cardinality({i \in DOMAIN calls : calls[i].by = t /\ calls[i].method = m})

CallsOn(r, m) ==
    Cardinality({i \in DOMAIN calls :
        calls[i].recorder = r /\ calls[i].method = m})

RecordMethods == {"record_input_audio", "record_output_audio"}

\* The recorder processor t held when its construction ended.
Attached(t) ==
    IF enable_recording[t] /\ shared_recorder[t] = None
    THEN NewRecorder(t)
    ELSE shared_recorder[t]

\* The stop triggers processor t has handled: EndFrames and cleanup() calls.
StopTriggers(t) == Count(received[t], {EndFrame}) + cleanups[t]

\* C1. Every frame a processor receives is forwarded exactly once, in
\* arrival order and unchanged, whatever its configuration: after each
\* handled frame the forwarded sequence equals the received one.
C1_PassThrough ==
    \A t \in Taps : forwarded[t] = received[t]

C1_Witness ==
    /\ Len(received["T1"]) >= 4
    /\ forwarded["T1"] = received["T1"]
    /\ \E i, j, k, l \in DOMAIN forwarded["T1"] :
          /\ i < j /\ j < k /\ k < l
          /\ forwarded["T1"][i] = StartFrame
          /\ forwarded["T1"][j] = AudioFrame("InputAudioRawFrame", 200)
          /\ forwarded["T1"][k] = EndFrame
          /\ forwarded["T1"][l] = OtherFrame

\* C2. A processor constructed with enable_recording = False never calls a
\* recorder method, whatever its other construction options: every call in
\* the log is made by a processor with enable_recording = True.
C2_DisabledNeverCalls ==
    \A i \in DOMAIN calls : enable_recording[calls[i].by]

\* C3. An input-side and an output-side processor that share one recorder,
\* each fed one StartFrame, its audio frames and one EndFrame: once both
\* have handled their EndFrame, stop_recording has been called exactly once
\* on that recorder, in every interleaving.
C3_SharedStoppedOnce ==
    \A a, b \in Taps :
        ( /\ constructed[a] /\ constructed[b]
          /\ record_input[a] /\ ~record_input[b]
          /\ Attached(a) # None /\ Attached(a) = Attached(b)
          /\ Count(received[a], {EndFrame}) = 1
          /\ Count(received[b], {EndFrame}) = 1 )
        => CallsOn(Attached(a), "stop_recording") = 1

\* Both sessions are over, each side had an audio frame of its own to record,
\* and the input side handled its EndFrame while the output side was still
\* recording: an output frame was recorded after the stop.
C3_Witness ==
    \E a, b \in Taps :
        /\ constructed[a] /\ constructed[b]
        /\ record_input[a] /\ ~record_input[b]
        /\ Attached(a) # None /\ Attached(a) = Attached(b)
        /\ Count(received[a], {EndFrame}) = 1
        /\ Count(received[b], {EndFrame}) = 1
        /\ CallsBy(a, "record_input_audio") >= 1
        /\ CallsOn(Attached(a), "stop_recording") = 1
        /\ \E i, j \in DOMAIN calls :
              /\ i < j
              /\ calls[i].method = "stop_recording"
              /\ calls[j].method = "record_output_audio" /\ calls[j].by = b

\* C4 as stated. Once the session's processors are constructed, with
\* recording enabled, start_recording has been called exactly once in
\* total, whichever of them were given a shared recorder.
C4_ExactlyOneStart ==
    (\A t \in Taps : constructed[t] /\ enable_recording[t])
        => Cardinality({i \in DOMAIN calls :
               calls[i].method = "start_recording"}) = 1

\* C4 as amended. start_recording is called once, on a fresh recorder of
\* its own, by every processor constructed with recording enabled and no
\* shared recorder, and by no other processor; so exactly one recorder is
\* started when exactly one enabled processor is constructed without a
\* shared recorder.
C4_OneStartPerOwner ==
    /\ \A t \in Taps :
          CallsBy(t, "start_recording") =
              IF constructed[t] /\ enable_recording[t]
                     /\ shared_recorder[t] = None
              THEN 1 ELSE 0
    /\ \A i \in DOMAIN calls :
          calls[i].method = "start_recording"
              => calls[i].recorder = NewRecorder(calls[i].by)
    /\ Cardinality({t \in Taps : constructed[t] /\ enable_recording[t]
                                    /\ shared_recorder[t] = None}) = 1
          => Cardinality({i \in DOMAIN calls :
                 calls[i].method = "start_recording"}) = 1

\* The wiring convention: one processor builds the recorder, the other is
\* given it; one start in total, and both have handled frames.
C4_Witness ==
    /\ constructed["T1"] /\ constructed["T2"]
    /\ enable_recording["T1"] /\ enable_recording["T2"]
    /\ shared_recorder["T1"] = None
    /\ shared_recorder["T2"] = NewRecorder("T1")
    /\ Cardinality({i \in DOMAIN calls :
           calls[i].method = "start_recording"}) = 1
    /\ received["T1"] # <<>> /\ received["T2"] # <<>>

\* C5. Direction isolation: a step in which an output-side processor
\* handles an InputAudioRawFrame, or an input-side processor an
\* OutputAudioRawFrame, makes no recorder call, with or without a recorder.
WrongSide(rin, frame) ==
    \/ frame.type = "InputAudioRawFrame" /\ ~rin
    \/ frame.type = "OutputAudioRawFrame" /\ rin

C5_DirectionIsolation ==
    [][\A t \in Taps :
          (received'[t] # received[t]
               /\ WrongSide(record_input[t], Last(received'[t])))
              => calls' = calls]_vars

\* An output-side processor that records (its own output frame is in the
\* log) has handled an InputAudioRawFrame, and the log has no input call.
C5_Witness ==
    /\ constructed["T1"] /\ ~record_input["T1"] /\ recorder["T1"] # None
    /\ \E i \in DOMAIN received["T1"] :
          received["T1"][i].type = "InputAudioRawFrame"
    /\ CallsBy("T1", "record_output_audio") = 1
    /\ CallsBy("T1", "record_input_audio") = 0
    /\ Len(received["T1"]) >= 3

\* C6. Idempotent stop: an input-side processor with a recorder attached
\* that has handled two or more stop triggers (EndFrames and cleanup()
\* calls, in any order, with any frames between) has called stop_recording
\* exactly once.
C6_IdempotentStop ==
    \A t \in Taps :
        ( /\ constructed[t] /\ record_input[t]
          /\ Attached(t) # None
          /\ StopTriggers(t) >= 2 )
        => CallsBy(t, "stop_recording") = 1

\* An EndFrame, an audio frame, a cleanup() and a second EndFrame.
C6_Witness ==
    /\ constructed["T1"] /\ record_input["T1"] /\ Attached("T1") # None
    /\ Count(received["T1"], {EndFrame}) = 2
    /\ cleanups["T1"] >= 1
    /\ Len(received["T1"]) >= 3
    /\ CallsBy("T1", "stop_recording") = 1

\* C7. Every processor that built and started its own recorder has, once
\* it has handled an EndFrame, stopped that recorder and dropped its
\* reference, whatever its direction.
C7_OwnerStopsOnEnd ==
    \A t \in Taps :
        ( /\ constructed[t]
          /\ enable_recording[t] /\ shared_recorder[t] = None
          /\ Count(received[t], {EndFrame}) >= 1 )
        => /\ CallsOn(NewRecorder(t), "stop_recording") >= 1
           /\ recorder[t] = None

\* C8. An output-side processor never calls stop_recording and never
\* clears its recorder reference, whatever frames and cleanup() calls it
\* handles.
C8_OutputNeverStops ==
    \A t \in Taps :
        (constructed[t] /\ ~record_input[t])
        => /\ CallsBy(t, "stop_recording") = 0
           /\ recorder[t] = Attached(t)

\* An output-side processor holding a recorder after two EndFrames and a
\* cleanup().
C8_Witness ==
    /\ constructed["T1"] /\ ~record_input["T1"]
    /\ recorder["T1"] # None
    /\ Count(received["T1"], {EndFrame}) >= 2
    /\ cleanups["T1"] >= 1
    /\ CallsBy("T1", "record_output_audio") >= 1

Scenario ==
    <<StartFrame, AudioFrame("InputAudioRawFrame", 320),
      AudioFrame("OutputAudioRawFrame", 200), EndFrame>>

\* The calls as the recorder sees them: method and argument.
Trace == [i \in DOMAIN calls |->
             <<calls[i].recorder, calls[i].method, calls[i].audio>>]

InScenario(t) ==
    /\ constructed[t] /\ enable_recording[t] /\ record_input[t]
    /\ shared_recorder[t] = None
    /\ cleanups[t] = 0

C10_Scenario ==
    /\ (InScenario("T1") /\ received["T1"] = <<>>)
          => Trace = <<<<NewRecorder("T1"), "start_recording", 0>>>>
    /\ (InScenario("T1") /\ received["T1"] = Scenario)
          => /\ Trace = << <<NewRecorder("T1"), "start_recording", 0>>,
                           <<NewRecorder("T1"), "record_input_audio", 320>>,
                           <<NewRecorder("T1"), "stop_recording", 0>> >>
             /\ forwarded["T1"] = Scenario

C10_Witness ==
    /\ InScenario("T1")
    /\ received["T1"] = Scenario
    /\ Len(calls) = 3

\* C11 as stated. On every recorder, whatever processors hold it,
\* stop_recording is called at most once.
C11_StoppedAtMostOnce ==
    \A r \in Recorders : CallsOn(r, "stop_recording") <= 1

\* C11 as amended. Every processor calls stop_recording at most once and an
\* output-side processor never; so a recorder is stopped at most once
\* whenever at most one input-side processor was given or built it.
C11_StoppedOncePerInputSide ==
    /\ \A t \in Taps : CallsBy(t, "stop_recording") <= 1
    /\ \A t \in Taps :
          (constructed[t] /\ ~record_input[t])
              => CallsBy(t, "stop_recording") = 0
    /\ \A r \in Recorders :
          Cardinality({t \in Taps :
              constructed[t] /\ record_input[t] /\ Attached(t) = r}) <= 1
              => CallsOn(r, "stop_recording") <= 1

\* An input-side and an output-side processor share a recorder; each has
\* handled its EndFrame and a cleanup(), and the recorder was stopped once.
C11_Witness ==
    \E a, b \in Taps :
        /\ constructed[a] /\ constructed[b]
        /\ record_input[a] /\ ~record_input[b]
        /\ Attached(a) # None /\ Attached(a) = Attached(b)
        /\ Count(received[a], {EndFrame}) = 1 /\ cleanups[a] >= 1
        /\ Count(received[b], {EndFrame}) = 1 /\ cleanups[b] >= 1
        /\ CallsOn(Attached(a), "stop_recording") = 1

\* C12. Once an input-side processor has handled an EndFrame its recorder
\* reference is None, and every frame it handles afterwards makes no
\* recorder call and is forwarded.
C12_AfterEnd ==
    /\ [](\A t \in Taps :
            (constructed[t] /\ record_input[t]
                 /\ Count(received[t], {EndFrame}) >= 1)
                => recorder[t] = None)
    /\ [][\A t \in Taps :
            (record_input[t] /\ Count(received[t], {EndFrame}) >= 1
                 /\ received'[t] # received[t])
                => /\ calls' = calls
                   /\ recorder'[t] = None
                   /\ forwarded'[t] =
                          Append(forwarded[t], Last(received'[t]))]_vars

\* The EndFrame stopped the recorder; an input frame, a legacy frame and a
\* second EndFrame followed, none recorded, all forwarded.
C12_Witness ==
    /\ constructed["T1"] /\ record_input["T1"]
    /\ Len(received["T1"]) >= 4
    /\ received["T1"][1] = EndFrame
    /\ received["T1"][2].type = "InputAudioRawFrame"
    /\ received["T1"][3].type = "AudioRawFrame"
    /\ received["T1"][4] = EndFrame
    /\ forwarded["T1"] = received["T1"]
    /\ recorder["T1"] = None
    /\ CallsBy("T1", "stop_recording") = 1
    /\ CallsBy("T1", "record_input_audio") = 0

\* C13. Legacy routing: a processor with a recorder attached that handles
\* an AudioRawFrame (no direction of its own) makes exactly one recorder
\* call, with the frame's bytes: record_input_audio when it is input-side,
\* record_output_audio when it is output-side.
C13_LegacyRouting ==
    [][\A t \in Taps :
          (received'[t] # received[t]
               /\ Last(received'[t]).type = "AudioRawFrame"
               /\ recorder[t] # None)
              => /\ Len(calls') = Len(calls) + 1
                 /\ SubSeq(calls', 1, Len(calls)) = calls
                 /\ Last(calls').by = t
                 /\ Last(calls').recorder = recorder[t]
                 /\ Last(calls').audio = Last(received'[t]).audio
                 /\ Last(calls').method =
                        IF record_input[t] THEN "record_input_audio"
                        ELSE "record_output_audio"]_vars

\* An output-side processor recorded a 200-byte AudioRawFrame as output.
C13_Witness ==
    /\ constructed["T1"] /\ ~record_input["T1"]
    /\ Len(received["T1"]) >= 1
    /\ Last(received["T1"]) = AudioFrame("AudioRawFrame", 200)
    /\ Len(calls) >= 1
    /\ Last(calls).method = "record_output_audio"
    /\ Last(calls).audio = 200
    /\ CallsBy("T1", "record_input_audio") = 0

\* The kinds of the things an operation did, in order.
Ops(eff) == [i \in DOMAIN eff |-> eff[i].op]

\* C14. Handling a StartFrame calls the lifecycle hook first, then forwards
\* the frame exactly once, and makes no recorder call and no change to the
\* recorder reference, in every state of the processor.
C14_StartFrame ==
    [][\A t \in Taps :
          (received'[t] # received[t] /\ Last(received'[t]) = StartFrame)
              => /\ Ops(effects') = <<"hook", "push">>
                 /\ started'[t]
                 /\ forwarded'[t] = Append(forwarded[t], StartFrame)
                 /\ calls' = calls
                 /\ recorder' = recorder]_vars

\* A StartFrame handled by a recording processor after other frames.
C14_Witness ==
    /\ constructed["T1"] /\ recorder["T1"] # None
    /\ Len(received["T1"]) >= 3
    /\ Last(received["T1"]) = StartFrame
    /\ Ops(effects) = <<"hook", "push">>
    /\ started["T1"]
    /\ forwarded["T1"] = received["T1"]
    /\ CallsBy("T1", "record_input_audio") >= 1

\* C15. Local handling precedes forwarding: when handling a frame makes a
\* recorder call or clears the reference, that is done before the frame's
\* one push_frame (for an EndFrame on the input side: stop_recording, then
\* self.recorder = None, then push_frame); so no EndFrame has gone
\* downstream of an input-side processor that still holds a recorder.
C15_HandledBeforeForwarded ==
    /\ [](\A t \in Taps :
            (constructed[t] /\ record_input[t]
                 /\ Count(forwarded[t], {EndFrame}) >= 1)
                => recorder[t] = None)
    /\ [][\A t \in Taps :
            (received'[t] # received[t]
                 /\ (calls' # calls \/ recorder' # recorder))
                => /\ Of(effects', "call") # <<>>
                   /\ Len(Of(effects', "push")) = 1
                   /\ Last(effects').op = "push"
                   /\ Last(received'[t]) = EndFrame
                          => /\ Ops(effects') = <<"call", "release", "push">>
                             /\ effects'[1].name = "stop_recording"
                             /\ recorder'[t] = None]_vars

\* The latest operation was the EndFrame of an input-side processor that
\* had recorded: it stopped, released, then forwarded.
C15_Witness ==
    /\ constructed["T1"] /\ record_input["T1"]
    /\ Len(forwarded["T1"]) >= 2 /\ Len(calls) >= 3
    /\ Last(forwarded["T1"]) = EndFrame
    /\ Ops(effects) = <<"call", "release", "push">>
    /\ CallsBy("T1", "record_input_audio") >= 1
    /\ Last(calls).method = "stop_recording"
    /\ recorder["T1"] = None

\* C16. Handling a frame that is neither StartFrame, audio nor EndFrame
\* makes no recorder call and leaves the recorder reference, record_input
\* and enable_recording as they were; handling an audio frame never changes
\* the recorder reference.
C16_FrameEffect ==
    [][\A t \in Taps :
          received'[t] # received[t]
              => /\ Last(received'[t]).type = "Frame"
                        => /\ calls' = calls
                           /\ recorder' = recorder
                           /\ record_input' = record_input
                           /\ enable_recording' = enable_recording
                 /\ Last(received'[t]).type \in AudioTypes
                        => recorder' = recorder]_vars

\* An input-side processor still holds its recorder after an audio frame it
\* recorded and a frame of another class.
C16_Witness ==
    /\ constructed["T1"] /\ record_input["T1"]
    /\ recorder["T1"] # None
    /\ Len(received["T1"]) >= 2
    /\ Last(received["T1"]) = OtherFrame
    /\ \E i \in DOMAIN received["T1"] : received["T1"][i].type \in AudioTypes
    /\ CallsBy("T1", "record_input_audio") >= 1
    /\ CallsBy("T1", "stop_recording") = 0

\* C17. For an input-side and an output-side processor sharing a
\* recorder, no record_input_audio or record_output_audio call is made on
\* the recorder after stop_recording was called on it.
C17_NoRecordAfterStop ==
    \A a, b \in Taps :
        ( /\ constructed[a] /\ constructed[b]
          /\ record_input[a] /\ ~record_input[b]
          /\ Attached(a) # None /\ Attached(a) = Attached(b) )
        => \A i, j \in DOMAIN calls :
               ~ ( /\ i < j
                   /\ calls[i].recorder = Attached(a)
                   /\ calls[i].method = "stop_recording"
                   /\ calls[j].recorder = Attached(a)
                   /\ calls[j].method \in RecordMethods )

\* C18 as stated. Every record or stop call is made on a recorder on which
\* start_recording was called before, whether the recorder is the
\* processor's own or was passed in as shared_recorder.
C18_CallsOnStarted ==
    \A j \in DOMAIN calls :
        calls[j].method # "start_recording"
            => \E i \in 1..(j - 1) :
                   /\ calls[i].method = "start_recording"
                   /\ calls[i].recorder = calls[j].recorder

\* C18 as amended. Every record or stop call on a recorder that a processor
\* built (its own, or one passed on to another processor as
\* shared_recorder) comes after that recorder's start_recording; a
\* processor starts no recorder but the one it built, so for a recorder
\* built elsewhere the start is left to whoever built it.
C18_CallsOnOwnStarted ==
    /\ \A j \in DOMAIN calls :
          (calls[j].method # "start_recording"
               /\ calls[j].recorder \in {NewRecorder(t) : t \in Taps})
              => \E i \in 1..(j - 1) :
                     /\ calls[i].method = "start_recording"
                     /\ calls[i].recorder = calls[j].recorder
    /\ \A j \in DOMAIN calls :
          calls[j].method = "start_recording"
              => /\ calls[j].recorder = NewRecorder(calls[j].by)
                 /\ shared_recorder[calls[j].by] = None

\* T1 built and started its recorder and passed it to T2; T1 recorded input
\* on it and stopped it, T2 recorded output on it.
C18_Witness ==
    /\ constructed["T1"] /\ constructed["T2"]
    /\ shared_recorder["T1"] = None
    /\ shared_recorder["T2"] = NewRecorder("T1")
    /\ Len(calls) >= 4
    /\ calls[1].method = "start_recording"
    /\ \E i, j, k \in DOMAIN calls :
          /\ calls[i].by = "T1" /\ calls[i].method = "record_input_audio"
          /\ calls[j].by = "T2" /\ calls[j].method = "record_output_audio"
          /\ calls[j].recorder = NewRecorder("T1")
          /\ calls[k].by = "T1" /\ calls[k].method = "stop_recording"

\* C19. For an audio frame of L bytes handled with a recorder attached, the
\* sample count computed for the log is floor(L / 2) (L // 2 for even L,
\* (L - 1) // 2 for odd L), for every L >= 0; the recorder method called and
\* the forwarding depend on the frame's class and the processor's side
\* only, not on L or the count.
C19_SampleCount ==
    [][\A t \in Taps :
          (received'[t] # received[t]
               /\ Last(received'[t]).type \in AudioTypes
               /\ recorder[t] # None)
              => LET frame == Last(received'[t])
                     L == frame.audio
                     counted == Of(effects', "num_samples")
                     made == Of(effects', "call")
                 IN  /\ Len(counted) = 1
                     /\ 2 * counted[1].n <= L /\ L <= 2 * counted[1].n + 1
                     /\ L % 2 = 0 => counted[1].n = L \div 2
                     /\ L % 2 = 1 => counted[1].n = (L - 1) \div 2
                     /\ made =
                            IF WrongSide(record_input[t], frame) THEN <<>>
                            ELSE <<Eff("call",
                                       IF record_input[t]
                                       THEN "record_input_audio"
                                       ELSE "record_output_audio", L)>>
                     /\ forwarded'[t] = Append(forwarded[t], frame)]_vars

\* An empty frame (0 samples) then a 3-byte frame (1 sample), both recorded
\* and forwarded.
C19_Witness ==
    /\ constructed["T1"] /\ recorder["T1"] # None
    /\ Len(received["T1"]) = 2
    /\ received["T1"][1].audio = 0
    /\ received["T1"][2].audio = 3
    /\ Of(effects, "num_samples") = <<Eff("num_samples", "", 1)>>
    /\ Len(calls) >= 2
    /\ Last(calls).audio = 3
    /\ calls[Len(calls) - 1].audio = 0
    /\ calls[Len(calls) - 1].method \in RecordMethods
    /\ forwarded["T1"] = received["T1"]

TypeOK ==
    /\ constructed \in [Taps -> BOOLEAN]
    /\ recorder \in [Taps -> Recorders \cup {None}]
    /\ \A t \in Taps : Len(forwarded[t]) <= Len(received[t])
====
